---------------------------- MODULE Spec2Model ----------------------------
(***************************************************************************)
(* Model of ChatAssistants.py: the message / exchange / conversation data  *)
(* model and the retry driver Conversation.run / _handle_submission, with  *)
(* the adapter operations of adapters/OpenAIAdapter.py.                    *)
(*                                                                         *)
(* Objects live in heaps indexed by identity: msgs[i] is the ChatMessage   *)
(* with identity i, exchs[j] the ChatExchange with identity j.  Exchanges  *)
(* and the conversation hold identities, so aliasing is visible.  0 stands *)
(* for Python's None wherever an identity is expected.                     *)
(*                                                                         *)
(* Spec is the Conversation and the Runs it starts, from the conversations *)
(* its constructor can be given; SpecData is the ChatMessage and           *)
(* ChatExchange operations, including in-place mutation of messages that   *)
(* an exchange holds; SpecColl is the ChatMessages collection and the      *)
(* serialization round trips; SpecAdapter is OpenAIAdapter.to_conversation *)
(* applied to record lists.                                                *)
(***************************************************************************)
EXTENDS Integers, Sequences, FiniteSets, TLC

(***************************************************************************)
(* Bounds of the model.                                                    *)
(***************************************************************************)
MaxMsgs == 3          \* ChatMessage objects a caller constructs
MaxExchs == 1         \* ChatExchange objects a caller constructs
MaxRuns == 2          \* ConversationRun objects ever created
MaxAttemptsArg == 3   \* largest max_attempts argument passed to run()
MaxTurns == 2         \* longest exchange sequence of the conversation
MaxColl == 2          \* longest ChatMessages collection
MaxRecords == 5       \* longest record list handed to to_conversation

None == 0

Contents == {"c1", "c2"}

\* src/ChatAssistants.py:39
VALID_ROLES == {"user", "assistant", "system"}

\* role arguments a caller may pass, valid or not
RoleArgs == VALID_ROLES \cup {"bogus"}

\* max_attempts arguments a caller may pass (run() accepts any integer)
MaxAttemptsArgs == (-1) .. MaxAttemptsArg

\* adapter arguments of run(): the default None, or an adapter object
AdapterArgs == {"None", "adapter"}

\* exceptions the adapter's llm_callback may raise
CallbackErrors == {"ExcessTokenError", "ConnectionError"}

\* values the adapter's llm_callback may return: None, or a dict whose
\* 'role' / 'content' entries may be absent ("absent" models dict.get -> None)
Raw(role, content) == [kind |-> "dict", role |-> role, content |-> content]

NoRaw == [kind |-> "None", role |-> "absent", content |-> "absent"]

RawResponses ==
    {NoRaw,
     Raw("assistant", "c1"), Raw("assistant", "c2"),
     Raw("user", "c1"), Raw("bogus", "c1"),
     Raw("absent", "c1"), Raw("assistant", "absent")}

VARIABLES
    msgs,            \* heap of ChatMessage objects: [role, content, sys]
    exchs,           \* heap of ChatExchange objects: [prompt, response]
    system_message,  \* Conversation._system_message (message identity)
    chat_exchanges,  \* Conversation._chat_exchanges (sequence of exchange identities)
    next_prompt,     \* Conversation._next_prompt (message identity or None)
    ro,              \* the ConversationRun object of the latest run()
    pc,              \* position of the driver: "idle" when no run() is executing
    lastOp,          \* the class of the latest public operation, how it ended
                     \* ("ok", "returned" or the exception raised) and, for
                     \* run(), the place that raised
    calls,           \* adapter operations invoked on behalf of the Run ro
    sleeps,          \* sleep(_delay_time) calls made on behalf of the Run ro
    entry,           \* the conversation as it was when the latest run() was called
    messages,        \* ChatMessages._messages (sequence of message identities)
    call             \* a call of OpenAIAdapter.to_conversation: its argument
                     \* and, once it has run, what it raised or returned

vars == <<msgs, exchs, system_message, chat_exchanges, next_prompt,
          ro, pc, lastOp, calls, sleeps, entry, messages, call>>

conv == <<system_message, chat_exchanges, next_prompt>>
heap == <<msgs, exchs>>
runState == <<ro, pc, calls, sleeps, entry>>

MsgIds == 1 .. Len(msgs)
ExchIds == 1 .. Len(exchs)

(***************************************************************************)
(* ChatMessage / SystemChatMessage                                         *)
(***************************************************************************)

\* SystemChatMessage.role.setter: the condition under which the override
\* hands the assignment on to ChatMessage's setter
SystemRoleAccepted_AnyValid(new_role) == TRUE

SystemRoleAccepted(new_role) == new_role = "system"

\* ChatMessage.role.setter and its override in SystemChatMessage: the
\* condition under which the assignment is accepted.
RoleAccepted_AnyRole(m, new_role) == TRUE

RoleAccepted(m, new_role) ==
    IF m.sys THEN SystemRoleAccepted(new_role) /\ new_role \in VALID_ROLES
             ELSE new_role \in VALID_ROLES

\* ChatMessage.to_dict(include_id = False)
to_dict(m) == [role |-> m.role, content |-> m.content]

Done(op, res, site) == [op |-> op, res |-> res, site |-> site]

\* ChatMessage(role, content)
NewMessage(role, content) ==
    /\ pc = "idle"
    /\ Len(msgs) < MaxMsgs
    /\ IF RoleAccepted([sys |-> FALSE], role)
       THEN /\ msgs' = Append(msgs, [role |-> role, content |-> content, sys |-> FALSE])
            /\ lastOp' = Done("ChatMessage", "ok", "ChatMessage")
       ELSE /\ msgs' = msgs
            /\ lastOp' = Done("ChatMessage", "ValueError", "ChatMessage")
    /\ UNCHANGED <<messages, call, exchs, conv, runState>>

\* message.role = new_role
SetRole(i, new_role) ==
    /\ pc = "idle"
    /\ i \in MsgIds
    /\ IF RoleAccepted(msgs[i], new_role)
       THEN /\ msgs' = [msgs EXCEPT ![i].role = new_role]
            /\ lastOp' = Done("ChatMessage", "ok", "ChatMessage")
       ELSE /\ msgs' = msgs
            /\ lastOp' = Done("ChatMessage", "ValueError", "ChatMessage")
    /\ UNCHANGED <<messages, call, exchs, conv, runState>>

\* message.update(role, content)
Update(i, role, content) ==
    /\ pc = "idle"
    /\ i \in MsgIds
    /\ IF RoleAccepted(msgs[i], role)
       THEN /\ msgs' = [msgs EXCEPT ![i].role = role, ![i].content = content]
            /\ lastOp' = Done("ChatMessage", "ok", "ChatMessage")
       ELSE /\ msgs' = msgs
            /\ lastOp' = Done("ChatMessage", "ValueError", "ChatMessage")
    /\ UNCHANGED <<messages, call, exchs, conv, runState>>

\* SystemChatMessage.from_chatmessage(message): a new SystemChatMessage
\* with the content of a message whose role is "system"
FromChatMessage(i) ==
    /\ pc = "idle"
    /\ i \in MsgIds
    /\ Len(msgs) < MaxMsgs
    /\ IF msgs[i].role # "system"
       THEN /\ msgs' = msgs
            /\ lastOp' = Done("from_chatmessage", "ValueError", ToString(i))
       ELSE /\ msgs' = Append(msgs, [role |-> "system",
                                     content |-> msgs[i].content, sys |-> TRUE])
            /\ lastOp' = Done("from_chatmessage", "ok", ToString(i))
    /\ UNCHANGED <<messages, call, exchs, conv, runState>>

\* system_chat_message.to_chatmessage(): a new plain ChatMessage
ToChatMessage(i) ==
    /\ pc = "idle"
    /\ i \in MsgIds
    /\ msgs[i].sys
    /\ Len(msgs) < MaxMsgs
    /\ msgs' = Append(msgs, [role |-> msgs[i].role,
                             content |-> msgs[i].content, sys |-> FALSE])
    /\ lastOp' = Done("to_chatmessage", "ok", ToString(i))
    /\ UNCHANGED <<messages, call, exchs, conv, runState>>

(***************************************************************************)
(* ChatExchange                                                            *)
(***************************************************************************)

\* ChatExchange.prompt.setter: the condition under which it raises
PromptRejected_Never(m) == FALSE

PromptRejected(m) == m.role # "user"

\* ChatExchange.response.setter: the condition under which it raises
ResponseRejected_Never(m) == FALSE

ResponseRejected(m) == m.role # "assistant"

\* ChatExchange(prompt, response)
NewExchange(p, r) ==
    /\ pc = "idle"
    /\ Len(exchs) < MaxExchs
    /\ p \in MsgIds /\ r \in MsgIds
    /\ IF PromptRejected(msgs[p]) \/ ResponseRejected(msgs[r])
       THEN /\ exchs' = exchs
            /\ lastOp' = Done("ChatExchange", "ValueError", "ChatExchange")
       ELSE /\ exchs' = Append(exchs, [prompt |-> p, response |-> r])
            /\ lastOp' = Done("ChatExchange", "ok", "ChatExchange")
    /\ UNCHANGED <<messages, call, msgs, conv, runState>>

\* exchange.prompt = message
SetPrompt(e, i) ==
    /\ pc = "idle"
    /\ e \in ExchIds /\ i \in MsgIds
    /\ IF PromptRejected(msgs[i])
       THEN /\ exchs' = exchs
            /\ lastOp' = Done("ChatExchange", "ValueError", "ChatExchange")
       ELSE /\ exchs' = [exchs EXCEPT ![e].prompt = i]
            /\ lastOp' = Done("ChatExchange", "ok", "ChatExchange")
    /\ UNCHANGED <<messages, call, msgs, conv, runState>>

\* exchange.response = message
SetResponse(e, i) ==
    /\ pc = "idle"
    /\ e \in ExchIds /\ i \in MsgIds
    /\ IF ResponseRejected(msgs[i])
       THEN /\ exchs' = exchs
            /\ lastOp' = Done("ChatExchange", "ValueError", "ChatExchange")
       ELSE /\ exchs' = [exchs EXCEPT ![e].response = i]
            /\ lastOp' = Done("ChatExchange", "ok", "ChatExchange")
    /\ UNCHANGED <<messages, call, msgs, conv, runState>>

(***************************************************************************)
(* Conversation                                                            *)
(***************************************************************************)

\* self._chat_exchanges.append(chat_exchange): lines 410 and 422
ListAppend_AtFront(list, item) == <<item>> \o list

ListAppend(list, item) == Append(list, item)

\* conversation.append(chat_exchange); 0 stands for an argument that is
\* not a ChatExchange
AppendExchange(e) ==
    /\ pc = "idle"
    /\ Len(chat_exchanges) < MaxTurns
    /\ e \in ExchIds \cup {None}
    /\ IF e = None
       THEN /\ chat_exchanges' = chat_exchanges
            /\ lastOp' = Done("Conversation", "ValueError", "Conversation")
       ELSE /\ chat_exchanges' = ListAppend(chat_exchanges, e)
            /\ lastOp' = Done("Conversation", "ok", "Conversation")
    /\ UNCHANGED <<messages, call, heap, system_message, next_prompt, runState>>

\* conversation.next_prompt = message (or None)
SetNextPrompt(i) ==
    /\ pc = "idle"
    /\ i \in MsgIds \cup {None}
    /\ IF i # None /\ msgs[i].role # "user"
       THEN /\ next_prompt' = next_prompt
            /\ lastOp' = Done("Conversation", "ValueError", "Conversation")
       ELSE /\ next_prompt' = i
            /\ lastOp' = Done("Conversation", "ok", "Conversation")
    /\ UNCHANGED <<messages, call, heap, system_message, chat_exchanges, runState>>

(***************************************************************************)
(* Adapter (adapters/OpenAIAdapter.py)                                     *)
(***************************************************************************)

\* the message identities OpenAIAdapter.from_conversation collects
MessagesOf_NoNext(sm, ces, np) ==
    <<sm>>
    \o [k \in 1 .. 2 * Len(ces) |->
           IF k % 2 = 1 THEN exchs[ces[(k + 1) \div 2]].prompt
                        ELSE exchs[ces[k \div 2]].response]

MessagesOf(sm, ces, np) ==
    <<sm>>
    \o [k \in 1 .. 2 * Len(ces) |->
           IF k % 2 = 1 THEN exchs[ces[(k + 1) \div 2]].prompt
                        ELSE exchs[ces[k \div 2]].response]
    \o (IF np # None THEN <<np>> ELSE <<>>)

\* OpenAIAdapter.from_conversation(conversation)
from_conversation ==
    LET list == MessagesOf(system_message, chat_exchanges, next_prompt)
    IN  [k \in 1 .. Len(list) |-> to_dict(msgs[list[k]])]

\* OpenAIAdapter.to_chatmessage(message_dict): "KeyError", "ValueError"
\* (raised by ChatMessage.__init__) or "ok"
to_chatmessage(raw) ==
    IF raw.role = "absent" \/ raw.content = "absent" THEN "KeyError"
    ELSE IF ~RoleAccepted([sys |-> FALSE], raw.role) THEN "ValueError"
    ELSE "ok"

(***************************************************************************)
(* ConversationRun                                                         *)
(***************************************************************************)

NoSnapshot == [set |-> FALSE]

\* no call of to_conversation is being looked at
NoCall == [arg |-> <<>>, res |-> "none"]

NoCalls == [from_conversation |-> 0, llm_callback |-> 0, to_chatmessage |-> 0]

\* ConversationRun.__init__ followed by the assignments of run(), lines 339-344
ConversationRun(id, max_attempts, adapter) ==
    [id |-> id,
     attempts |-> 0,
     max_attempts |-> max_attempts,
     status |-> "UNSUBMITTED",
     adapter |-> adapter,
     submission_list |-> <<>>,
     error_list |-> <<>>,
     raw_response |-> NoRaw,
     response |-> None,
     convo_snapshot |-> NoSnapshot]

\* copy.deepcopy(ro.conversation): a value that shares nothing with the heap
Snapshot ==
    [set |-> TRUE,
     system_message |-> msgs[system_message],
     chat_exchanges |-> [k \in 1 .. Len(chat_exchanges) |->
                            [prompt |-> msgs[exchs[chat_exchanges[k]].prompt],
                             response |-> msgs[exchs[chat_exchanges[k]].response]]],
     next_prompt |-> IF next_prompt = None THEN [set |-> FALSE]
                     ELSE msgs[next_prompt]]

\* the conversation and the heaps at the call of run()
AtEntry ==
    [msgs |-> msgs, exchs |-> exchs, system_message |-> system_message,
     chat_exchanges |-> chat_exchanges, next_prompt |-> next_prompt]

(***************************************************************************)
(* Conversation.run                                                        *)
(***************************************************************************)

\* line 335: the precondition test of run()
NextPromptUnset_Never == FALSE

NextPromptUnset == next_prompt = None

\* run(max_attempts, timeout, adapter): lines 335-362, up to the moment the
\* adapter's from_conversation has been invoked
Run(max_attempts, adapter) ==
    /\ pc = "idle"
    /\ IF NextPromptUnset
       THEN /\ lastOp' = Done("run", "ValueError", "run")
            /\ UNCHANGED <<messages, call, heap, conv, runState>>
       ELSE /\ ro.id < MaxRuns
            /\ ro' = ConversationRun(ro.id + 1, max_attempts, adapter)
            /\ sleeps' = 0
            /\ entry' = AtEntry
            /\ IF adapter = "None"
               THEN \* None.from_conversation
                    /\ calls' = NoCalls
                    /\ pc' = "idle"
                    /\ lastOp' = Done("run", "AttributeError", "run")
               ELSE /\ calls' = [NoCalls EXCEPT !.from_conversation = 1]
                    /\ pc' = "from_conversation"
                    /\ lastOp' = Done("run", "running", "run")
            /\ UNCHANGED <<messages, call, heap, conv>>

\* lines 362 and 365: the Run once the payload is stored
Pending_NoStatus(r, payload) == [r EXCEPT !.submission_list = payload]

Pending(r, payload) ==
    [r EXCEPT !.submission_list = payload, !.status = "PENDING"]

\* lines 362-367: from_conversation returns the payload
FromConversationReturns ==
    /\ pc = "from_conversation"
    /\ ro' = Pending(ro, from_conversation)
    /\ pc' = "while"
    /\ UNCHANGED <<messages, call, heap, conv, lastOp, calls, sleeps, entry>>

\* line 362: from_conversation raises; nothing in run() catches it
FromConversationRaises ==
    /\ pc = "from_conversation"
    /\ pc' = "idle"
    /\ lastOp' = Done("run", "AdapterError", "from_conversation")
    /\ UNCHANGED <<messages, call, heap, conv, ro, calls, sleeps, entry>>

(***************************************************************************)
(* Conversation._handle_submission                                         *)
(***************************************************************************)

\* line 379: the loop condition
LoopCondition_OffByOne(r) == r.attempts <= r.max_attempts

LoopCondition(r) == r.attempts < r.max_attempts

\* line 387: which exceptions the first except clause catches
IsExcessToken_Never(e) == FALSE

IsExcessToken(e) == e = "ExcessTokenError"

\* line 397: the exhaustion test
Exhausted_Never(r) == FALSE

Exhausted(r) == r.attempts >= r.max_attempts

\* lines 389 and 395: ro.error_list.append(e)
Recorded_Replaced(errors, e) == <<e>>

Recorded(errors, e) == Append(errors, e)

\* lines 381-382: the Run at the top of an attempt
Submitted_NoStatus(r) == [r EXCEPT !.attempts = @ + 1]

Submitted(r) == [r EXCEPT !.attempts = @ + 1, !.status = "SUBMITTED"]

\* lines 404-414: the Run after a successful attempt; new is the identity
\* of the adapted response
Completed_NoStatus(r, raw, snap, new) ==
    [r EXCEPT !.raw_response = raw, !.convo_snapshot = snap, !.response = new]

Completed(r, raw, snap, new) ==
    [r EXCEPT !.raw_response = raw, !.convo_snapshot = snap, !.response = new,
              !.status = "COMPLETED"]

\* line 379 false: the loop is left, _handle_submission returns None and
\* run() returns the Run (line 370)
LoopExit ==
    /\ pc = "while"
    /\ ~LoopCondition(ro)
    /\ pc' = "idle"
    /\ lastOp' = Done("run", "returned", "run")
    /\ UNCHANGED <<messages, call, heap, conv, ro, calls, sleeps, entry>>

\* lines 380-384: the top of an attempt, up to the invocation of llm_callback
BeginAttempt ==
    /\ pc = "while"
    /\ LoopCondition(ro)
    /\ ro' = Submitted(ro)
    /\ calls' = [calls EXCEPT !.llm_callback = @ + 1]
    /\ pc' = "llm_callback"
    /\ UNCHANGED <<messages, call, heap, conv, lastOp, sleeps, entry>>

\* lines 387-396: llm_callback raises e
CallbackRaises(e) ==
    /\ pc = "llm_callback"
    /\ IF IsExcessToken(e)
       THEN /\ ro' = [ro EXCEPT !.status = "FAILED",
                                !.error_list = Recorded(@, e)]
            /\ pc' = "idle"
            /\ lastOp' = Done("run", "ExcessTokenError", "llm_callback")
       ELSE /\ ro' = [ro EXCEPT !.status = "ERROR",
                                !.error_list = Recorded(@, e)]
            /\ pc' = "except"
            /\ lastOp' = lastOp
    /\ UNCHANGED <<messages, call, heap, conv, calls, sleeps, entry>>

\* lines 397-399: the failed attempt was the last one permitted
GiveUp ==
    /\ pc = "except"
    /\ Exhausted(ro)
    /\ ro' = [ro EXCEPT !.status = "FAILED"]
    /\ pc' = "idle"
    /\ lastOp' = Done("run", "returned", "run")
    /\ UNCHANGED <<messages, call, heap, conv, calls, sleeps, entry>>

\* line 400: sleep(_delay_time) is entered
Backoff ==
    /\ pc = "except"
    /\ ~Exhausted(ro)
    /\ sleeps' = sleeps + 1
    /\ pc' = "sleep"
    /\ UNCHANGED <<messages, call, heap, conv, ro, lastOp, calls, entry>>

\* line 400: sleep returns, back to the loop condition
SleepReturns ==
    /\ pc = "sleep"
    /\ pc' = "while"
    /\ UNCHANGED <<messages, call, heap, conv, ro, lastOp, calls, sleeps, entry>>

\* what the else clause (lines 402-417) does after llm_callback returned raw:
\* "completed", or the exception that leaves run() and the place raising it
Outcome(raw) ==
    IF raw.kind # "None" /\ to_chatmessage(raw) # "ok"
    THEN [res |-> to_chatmessage(raw), site |-> "to_chatmessage"]
    ELSE IF next_prompt = None
    THEN [res |-> "AttributeError", site |-> "ChatExchange"]
    ELSE IF PromptRejected(msgs[next_prompt])
    THEN [res |-> "ValueError", site |-> "ChatExchange"]
    ELSE IF raw.kind = "None"
    THEN [res |-> "AttributeError", site |-> "ChatExchange"]
    ELSE IF ResponseRejected(to_dict(raw))
    THEN [res |-> "ValueError", site |-> "ChatExchange"]
    ELSE [res |-> "completed", site |-> "run"]

\* lines 402-417: what the else clause leaves in self._next_prompt (it
\* reads next_prompt at 408 and never assigns it)
NextPromptAfterRun_Cleared(np) == None

NextPromptAfterRun(np) == np

\* lines 384, 402-417: llm_callback returns raw
CallbackReturns(raw) ==
    /\ pc = "llm_callback"
    /\ LET adapted == raw.kind # "None" /\ to_chatmessage(raw) = "ok"
           new == Len(msgs) + 1
           out == Outcome(raw)
       IN  /\ calls' = [calls EXCEPT !.to_chatmessage =
                            IF raw.kind # "None" THEN @ + 1 ELSE @]
           /\ msgs' = IF adapted
                      THEN Append(msgs, [role |-> raw.role, content |-> raw.content,
                                         sys |-> FALSE])
                      ELSE msgs
           /\ IF out.res = "completed"
              THEN /\ exchs' = Append(exchs, [prompt |-> next_prompt, response |-> new])
                   /\ chat_exchanges' = ListAppend(chat_exchanges, Len(exchs) + 1)
                   /\ ro' = Completed(ro, raw, Snapshot, new)
                   /\ lastOp' = Done("run", "returned", "run")
              ELSE /\ exchs' = exchs
                   /\ chat_exchanges' = chat_exchanges
                   /\ ro' = [ro EXCEPT !.raw_response = raw,
                                       !.convo_snapshot = Snapshot,
                                       !.response = IF adapted THEN new ELSE @]
                   /\ lastOp' = Done("run", out.res, out.site)
    /\ next_prompt' = NextPromptAfterRun(next_prompt)
    /\ pc' = "idle"
    /\ UNCHANGED <<messages, call, system_message, sleeps, entry>>

(***************************************************************************)
(* ChatMessages                                                            *)
(***************************************************************************)

\* a == b for two ChatMessage objects: the class defines no __eq__, so
\* list membership and list.remove compare identities
Matches_ByValue(a, b) == to_dict(msgs[a]) = to_dict(msgs[b])

Matches(a, b) == a = b

\* chat_message in self._messages
Contains(i) == \E k \in 1 .. Len(messages) : Matches(messages[k], i)

\* list.remove(x): the list without its first item equal to x
ListRemove(i) ==
    LET k == CHOOSE n \in 1 .. Len(messages) :
                 /\ Matches(messages[n], i)
                 /\ \A j \in 1 .. (n - 1) : ~Matches(messages[j], i)
    IN  [n \in 1 .. (Len(messages) - 1) |->
            IF n < k THEN messages[n] ELSE messages[n + 1]]

\* chat_messages.create(role, content)
Create(role, content) ==
    /\ pc = "idle"
    /\ Len(msgs) < MaxMsgs /\ Len(messages) < MaxColl
    /\ IF RoleAccepted([sys |-> FALSE], role)
       THEN /\ msgs' = Append(msgs, [role |-> role, content |-> content, sys |-> FALSE])
            /\ messages' = Append(messages, Len(msgs) + 1)
            /\ lastOp' = Done("create", "ok", ToString(Len(msgs) + 1))
       ELSE /\ UNCHANGED <<msgs, messages>>
            /\ lastOp' = Done("create", "ValueError", "ChatMessage")
    /\ UNCHANGED <<call, exchs, conv, runState>>

\* chat_messages.add(chat_message)
Add(i) ==
    /\ pc = "idle"
    /\ i \in MsgIds
    /\ Len(messages) < MaxColl
    /\ messages' = Append(messages, i)
    /\ lastOp' = Done("add", "ok", ToString(i))
    /\ UNCHANGED <<call, heap, conv, runState>>

\* chat_messages.remove(chat_message)
Remove(i) ==
    /\ pc = "idle"
    /\ i \in MsgIds
    /\ IF Contains(i)
       THEN /\ messages' = ListRemove(i)
            /\ lastOp' = Done("remove", "ok", ToString(i))
       ELSE /\ messages' = messages
            /\ lastOp' = Done("remove", "ValueError", ToString(i))
    /\ UNCHANGED <<call, heap, conv, runState>>

\* chat_messages.get(chat_message_id): a message's id is unique to the
\* object, so the identity stands for it; Len(msgs) + 1 is an id no
\* message has
Get(id) ==
    /\ pc = "idle"
    /\ id \in 1 .. (Len(msgs) + 1)
    /\ IF \E k \in 1 .. Len(messages) : messages[k] = id
       THEN lastOp' = Done("get", "ok",
                ToString(messages[CHOOSE k \in 1 .. Len(messages) :
                    /\ messages[k] = id
                    /\ \A j \in 1 .. (k - 1) : messages[j] # id]))
       ELSE lastOp' = Done("get", "ValueError", ToString(id))
    /\ UNCHANGED <<messages, call, heap, conv, runState>>

(***************************************************************************)
(* Serialization.  A JSON text is modelled by the value json.loads gives   *)
(* for it; a record's "id" entry is None when the key is absent.           *)
(***************************************************************************)

\* ChatMessage.to_dict(include_id)
MessageRecord(i, include_id) ==
    [id |-> IF include_id THEN i ELSE None,
     role |-> msgs[i].role, content |-> msgs[i].content]

\* ChatMessages.to_dict(include_id)
CollectionRecords(include_id) ==
    [k \in 1 .. Len(messages) |-> MessageRecord(messages[k], include_id)]

\* ChatMessages.serialize(): to_dict() with its default include_id = True
serialize == [valid |-> TRUE, records |-> CollectionRecords(TRUE)]

\* texts handed to deserialize: the output of serialize(), the dump of
\* to_dict(include_id = False), and a text that is not JSON
JsonInputs ==
    {[text |-> "serialize", json |-> serialize],
     [text |-> "to_dict", json |-> [valid |-> TRUE, records |-> CollectionRecords(FALSE)]],
     [text |-> "text", json |-> [valid |-> FALSE, records |-> <<>>]]}

\* ChatMessage(**msg): __init__ takes role and content only
ChatMessageKwargs(rec) ==
    IF rec.id # None THEN "TypeError"
    ELSE IF ~RoleAccepted([sys |-> FALSE], rec.role) THEN "ValueError"
    ELSE "ok"

\* SystemChatMessage(**record): __init__ takes content only, and every
\* record to_dict makes has a "role" entry
SystemChatMessageKwargs(rec) ==
    IF rec.id # None \/ rec.role \in RoleArgs THEN "TypeError" ELSE "ok"

\* chat_messages.deserialize(json_string)
Deserialize(given) ==
    LET recs == given.json.records
        bad == {k \in 1 .. Len(recs) : ChatMessageKwargs(recs[k]) # "ok"}
        first == CHOOSE k \in bad : \A j \in bad : k <= j
    IN  /\ pc = "idle"
        /\ (given.json.valid /\ bad = {}) => Len(msgs) + Len(recs) <= MaxMsgs
        /\ IF ~given.json.valid
           THEN /\ UNCHANGED <<msgs, messages>>
                /\ lastOp' = Done("deserialize", "ValueError", given.text)
           ELSE IF bad # {}
           THEN /\ UNCHANGED <<msgs, messages>>
                /\ lastOp' = Done("deserialize", ChatMessageKwargs(recs[first]), given.text)
           ELSE /\ msgs' = msgs \o [k \in 1 .. Len(recs) |->
                                      [role |-> recs[k].role,
                                       content |-> recs[k].content, sys |-> FALSE]]
                /\ messages' = [k \in 1 .. Len(recs) |-> Len(msgs) + k]
                /\ lastOp' = Done("deserialize", "ok", given.text)
        /\ UNCHANGED <<call, exchs, conv, runState>>

\* Conversation.to_dict(): include_id = True
ConversationRecord ==
    [system_message |-> MessageRecord(system_message, TRUE),
     chat_exchanges |->
        [k \in 1 .. Len(chat_exchanges) |->
            [prompt |-> MessageRecord(exchs[chat_exchanges[k]].prompt, TRUE),
             response |-> MessageRecord(exchs[chat_exchanges[k]].response, TRUE)]]]

\* conversation.deserialize(conversation.serialize()): the system message
\* is rebuilt first, then each exchange from its two records (dicts, which
\* have no role attribute for the setters of ChatExchange to read)
ConversationRoundTrip ==
    LET convo == ConversationRecord
    IN  /\ pc = "idle"
        /\ IF SystemChatMessageKwargs(convo.system_message) # "ok"
           THEN /\ UNCHANGED <<msgs, conv>>
                /\ lastOp' = Done("Conversation.deserialize",
                                  SystemChatMessageKwargs(convo.system_message),
                                  "serialize")
           ELSE /\ Len(msgs) < MaxMsgs
                /\ msgs' = Append(msgs, [role |-> "system",
                                         content |-> convo.system_message.content,
                                         sys |-> TRUE])
                /\ system_message' = Len(msgs) + 1
                /\ UNCHANGED next_prompt
                /\ IF convo.chat_exchanges # <<>>
                   THEN /\ UNCHANGED chat_exchanges
                        /\ lastOp' = Done("Conversation.deserialize",
                                          "AttributeError", "serialize")
                   ELSE /\ chat_exchanges' = <<>>
                        /\ lastOp' = Done("Conversation.deserialize", "ok",
                                          "serialize")
        /\ UNCHANGED <<messages, call, exchs, runState>>

(***************************************************************************)
(* OpenAIAdapter.to_conversation                                           *)
(***************************************************************************)

\* {role, content} records a caller may put into the list
Records == {[role |-> r, content |-> c] : r \in RoleArgs, c \in Contents}

RecordLists == UNION {[1 .. n -> Records] : n \in 0 .. MaxRecords}

\* what a call that raised err leaves behind
Raised(list, from, err) ==
    [arg |-> list, from |-> from, res |-> err, system_message |-> "none",
     chat_exchanges |-> <<>>, next_prompt |-> None]

\* line 102: the test for a list that is too short
TooShort_Empty(n) == n < 1

TooShort(n) == n < 3

\* OpenAIAdapter.to_chatexchange([prompt, response]): "ok" or the
\* exception raised by to_chatmessage or by the setters of ChatExchange
to_chatexchange(prompt, response) ==
    IF to_chatmessage(prompt) # "ok" THEN to_chatmessage(prompt)
    ELSE IF to_chatmessage(response) # "ok" THEN to_chatmessage(response)
    ELSE IF PromptRejected(prompt) \/ ResponseRejected(response) THEN "ValueError"
    ELSE "ok"

\* OpenAIAdapter.to_conversation(list_of_dicts): the exception raised, or
\* the contents of the Conversation returned (all its objects are new)
to_conversation(list, from) ==
    LET n == Len(list)
        even == n % 2 = 0
        body == IF even THEN SubSeq(list, 2, n - 1) ELSE SubSeq(list, 2, n)
        pairs == [k \in 1 .. (Len(body) \div 2) |->
                     [prompt |-> body[2 * k - 1], response |-> body[2 * k]]]
        bad == {k \in 1 .. Len(pairs) :
                   to_chatexchange(pairs[k].prompt, pairs[k].response) # "ok"}
        first == CHOOSE k \in bad : \A j \in bad : k <= j
    IN  IF TooShort(n) THEN Raised(list, from, "ValueError")
        ELSE IF even THEN Raised(list, from, "ValueError")
        ELSE IF to_chatmessage(list[1]) # "ok"
        THEN Raised(list, from, to_chatmessage(list[1]))
        ELSE IF list[1].role # "system" THEN Raised(list, from, "ValueError")
        ELSE IF even /\ to_chatmessage(list[n]) # "ok"
        THEN Raised(list, from, to_chatmessage(list[n]))
        ELSE IF bad # {}
        THEN Raised(list, from,
                    to_chatexchange(pairs[first].prompt, pairs[first].response))
        ELSE IF even /\ list[n].role # "user" THEN Raised(list, from, "ValueError")
        ELSE [arg |-> list, from |-> from, res |-> "ok",
              system_message |-> list[1].content,
              chat_exchanges |-> pairs,
              next_prompt |-> IF even THEN list[n] ELSE None]

\* adapter.from_conversation(conversation), called by the user of the
\* adapter to get the list to hand back
FromConversation ==
    /\ call = NoCall
    /\ call' = [arg |-> from_conversation, from |-> "from_conversation",
                res |-> "none"]
    /\ UNCHANGED <<messages, heap, conv, lastOp, runState>>

\* adapter.to_conversation(list_of_dicts)
ToConversation ==
    /\ call # NoCall
    /\ call.res = "none"
    /\ call' = to_conversation(call.arg, call.from)
    /\ UNCHANGED <<messages, heap, conv, lastOp, runState>>

(***************************************************************************)
(* The program                                                             *)
(***************************************************************************)

\* the messages of the tests' setUp (a system, a user and an assistant
\* message), and a Conversation constructed from them with no history or
\* with one prior exchange, with or without a pending prompt; no Run yet
Init ==
    /\ msgs = <<[role |-> "system", content |-> "c1", sys |-> TRUE],
                [role |-> "user", content |-> "c2", sys |-> FALSE],
                [role |-> "assistant", content |-> "c1", sys |-> FALSE]>>
    /\ exchs \in {<<>>, <<[prompt |-> 2, response |-> 3]>>}
    /\ system_message = 1
    /\ chat_exchanges \in {<<>>} \cup {<<e>> : e \in ExchIds}
    /\ next_prompt \in {None, 2}
    /\ ro = ConversationRun(0, 0, "None")
    /\ pc = "idle"
    /\ lastOp = Done("Conversation", "ok", "Conversation")
    /\ calls = NoCalls
    /\ sleeps = 0
    /\ entry = AtEntry
    /\ messages = <<>>
    /\ call = NoCall

\* the operations of Conversation and of the Runs it starts
Next ==
    \/ \E e \in ExchIds \cup {None} : AppendExchange(e)
    \/ \E i \in MsgIds \cup {None} : SetNextPrompt(i)
    \/ \E n \in MaxAttemptsArgs, a \in AdapterArgs : Run(n, a)
    \/ FromConversationReturns
    \/ FromConversationRaises
    \/ LoopExit
    \/ BeginAttempt
    \/ \E e \in CallbackErrors : CallbackRaises(e)
    \/ GiveUp
    \/ Backoff
    \/ SleepReturns
    \/ \E raw \in RawResponses : CallbackReturns(raw)

\* the operations of ChatMessage and ChatExchange
NextData ==
    \/ \E r \in RoleArgs, c \in Contents : NewMessage(r, c)
    \/ \E i \in MsgIds, r \in RoleArgs : SetRole(i, r)
    \/ \E i \in MsgIds, r \in RoleArgs, c \in Contents : Update(i, r, c)
    \/ \E i \in MsgIds : FromChatMessage(i)
    \/ \E i \in MsgIds : ToChatMessage(i)
    \/ \E p \in MsgIds, r \in MsgIds : NewExchange(p, r)
    \/ \E e \in ExchIds, i \in MsgIds : SetPrompt(e, i)
    \/ \E e \in ExchIds, i \in MsgIds : SetResponse(e, i)

\* a SystemChatMessage has been constructed; no Conversation is in use
InitData ==
    /\ msgs = <<[role |-> "system", content |-> "c1", sys |-> TRUE]>>
    /\ exchs = <<>>
    /\ system_message = 1
    /\ chat_exchanges = <<>>
    /\ next_prompt = None
    /\ ro = ConversationRun(0, 0, "None")
    /\ pc = "idle"
    /\ lastOp = Done("ChatMessage", "ok", "ChatMessage")
    /\ calls = NoCalls
    /\ sleeps = 0
    /\ entry = AtEntry
    /\ messages = <<>>
    /\ call = NoCall

SpecData == InitData /\ [][NextData]_vars

\* the operations of a ChatMessages collection, and the serialization
\* round trips of the collection and of a Conversation
NextColl ==
    \/ \E r \in RoleArgs, c \in Contents : NewMessage(r, c)
    \/ \E r \in RoleArgs, c \in Contents : Create(r, c)
    \/ \E i \in MsgIds : Add(i)
    \/ \E i \in MsgIds : Remove(i)
    \/ \E id \in 1 .. (Len(msgs) + 1) : Get(id)
    \/ \E given \in JsonInputs : Deserialize(given)
    \/ ConversationRoundTrip

\* an empty ChatMessages next to a Conversation that has its system message
SpecColl == InitData /\ [][NextColl]_vars

\* either a caller has a record list of its own to convert, or a
\* Conversation (the setUp messages with up to MaxTurns exchanges, with or
\* without a pending prompt) whose payload it will convert back
InitAdapter ==
    /\ msgs = <<[role |-> "system", content |-> "c1", sys |-> TRUE],
                [role |-> "user", content |-> "c2", sys |-> FALSE],
                [role |-> "assistant", content |-> "c1", sys |-> FALSE]>>
    /\ exchs = <<[prompt |-> 2, response |-> 3]>>
    /\ system_message = 1
    /\ \/ /\ chat_exchanges = <<>>
          /\ next_prompt = None
          /\ call \in {[arg |-> list, from |-> "caller", res |-> "none"] :
                          list \in RecordLists}
       \/ /\ chat_exchanges \in UNION {[1 .. n -> ExchIds] : n \in 0 .. MaxTurns}
          /\ next_prompt \in {None, 2}
          /\ call = NoCall
    /\ ro = ConversationRun(0, 0, "None")
    /\ pc = "idle"
    /\ lastOp = Done("Conversation", "ok", "Conversation")
    /\ calls = NoCalls
    /\ sleeps = 0
    /\ entry = AtEntry
    /\ messages = <<>>

NextAdapter ==
    \/ FromConversation
    \/ ToConversation

SpecAdapter == InitAdapter /\ [][NextAdapter]_vars

Spec == Init /\ [][Next]_vars

(***************************************************************************)
(* Properties                                                              *)
(***************************************************************************)

\* no run() is executing and the latest public operation was a run() that
\* got past its precondition: ro and entry are that run's
RunEnded ==
    /\ pc = "idle"
    /\ lastOp.op = "run"
    /\ lastOp # Done("run", "ValueError", "run")

\* run() has just returned its Run to the caller
RunReturned == RunEnded /\ lastOp.res = "returned"

NonFatal(errors) == \A i \in 1 .. Len(errors) : errors[i] # "ExcessTokenError"

\* C1: a call of run() while next_prompt is unset ends at once with a
\* ValueError raised by run() itself; it creates no Run, invokes no adapter
\* operation, and leaves the messages, the exchanges, the system message
\* and next_prompt as they were.
C1_RunWithoutPromptFails ==
    [][(pc = "idle" /\ next_prompt = None /\ lastOp'.op = "run")
         => /\ lastOp' = Done("run", "ValueError", "run")
            /\ pc' = "idle"
            /\ ro' = ro
            /\ calls' = calls
            /\ UNCHANGED <<msgs, exchs, system_message, chat_exchanges,
                           next_prompt>>]_vars

\* a run() refused for want of a prompt, after an earlier Run had completed
C1_Witness ==
    /\ lastOp = Done("run", "ValueError", "run")
    /\ pc = "idle"
    /\ next_prompt = None
    /\ ro.id = 1
    /\ ro.status = "COMPLETED"
    /\ Len(chat_exchanges) = Len(entry.chat_exchanges) + 1

\* C2: an ExcessTokenError of llm_callback is never retried.  The step that
\* records it sets the status to FAILED and ends run() by raising
\* ExcessTokenError; a recorded ExcessTokenError is always the last entry of
\* error_list, the Run stays FAILED and idle, and the number of callback
\* invocations stays the number of recorded errors.  In particular, when
\* the first invocation raises it, attempts = 1 and error_list has 1 entry.
C2_TokenErrorInState ==
    \A i \in 1 .. Len(ro.error_list) :
        ro.error_list[i] = "ExcessTokenError"
          => /\ i = Len(ro.error_list)
             /\ ro.status = "FAILED"
             /\ pc = "idle"
             /\ ro.attempts = i
             /\ calls.llm_callback = i

C2_TokenErrorInStep ==
    (/\ ro'.id = ro.id
     /\ Len(ro'.error_list) = Len(ro.error_list) + 1
     /\ ro'.error_list[Len(ro'.error_list)] = "ExcessTokenError")
      => /\ ro'.status = "FAILED"
         /\ pc' = "idle"
         /\ lastOp' = Done("run", "ExcessTokenError", "llm_callback")
         /\ ro'.max_attempts >= 1

C2_TokenErrorNeverRetried ==
    [](C2_TokenErrorInState /\ (pc = "llm_callback" => NonFatal(ro.error_list)))
    /\ [][C2_TokenErrorInStep]_vars

\* a token-limit failure on the second of three permitted attempts
C2_Witness ==
    /\ lastOp = Done("run", "ExcessTokenError", "llm_callback")
    /\ ro.error_list = <<"ConnectionError", "ExcessTokenError">>
    /\ ro.max_attempts = 3
    /\ ro.status = "FAILED"

\* the step in which llm_callback returns raw (the only step that leaves
\* the callback without recording an error)
CallbackReturned == pc = "llm_callback" /\ ro'.error_list = ro.error_list

EndsAllFailed ==
    /\ pc # "idle" /\ pc' = "idle"
    /\ calls'.llm_callback >= 1
    /\ Len(ro'.error_list) = calls'.llm_callback
    /\ NonFatal(ro'.error_list)

\* C4: when every invocation of llm_callback fails with a non-fatal error,
\* run() goes on until max_attempts invocations have failed and then
\* returns the Run without raising: status FAILED, attempts = max_attempts,
\* max_attempts recorded errors, and the exchanges are those run() found.
C4_ExhaustionReturnsFailed ==
    [](pc \in {"except", "sleep"} =>
          Len(ro.error_list) = calls.llm_callback)
    /\ [][EndsAllFailed
            => /\ lastOp' = Done("run", "returned", "run")
               /\ ro'.status = "FAILED"
               /\ ro'.max_attempts >= 1
               /\ ro'.attempts = ro'.max_attempts
               /\ Len(ro'.error_list) = ro'.max_attempts
               /\ chat_exchanges' = entry.chat_exchanges
               /\ exchs' = entry.exchs
               /\ msgs' = entry.msgs]_vars

\* three failures out of three permitted attempts
C4_Witness ==
    /\ RunReturned
    /\ ro.status = "FAILED"
    /\ ro.max_attempts = 3
    /\ ro.attempts = 3
    /\ ro.error_list = <<"ConnectionError", "ConnectionError", "ConnectionError">>
    /\ chat_exchanges = entry.chat_exchanges

\* C5: a Run starts with attempts = 0; attempts changes only by one, in the
\* step that invokes llm_callback; it always equals the number of
\* llm_callback invocations made for the Run; and a Run with max_attempts =
\* N >= 0 never makes more than N of them (none when N is negative).
C5_AttemptsInState ==
    /\ ro.attempts = calls.llm_callback
    /\ ro.attempts >= 0
    /\ ro.max_attempts >= 0 => ro.attempts <= ro.max_attempts
    /\ ro.max_attempts < 0 => ro.attempts = 0

C5_AttemptsInStep ==
    /\ ro'.id # ro.id => ro'.attempts = 0 /\ calls'.llm_callback = 0
    /\ (ro'.id = ro.id /\ ro'.attempts # ro.attempts)
         => /\ ro'.attempts = ro.attempts + 1
            /\ pc = "while" /\ pc' = "llm_callback"
    /\ (pc # "llm_callback" /\ pc' = "llm_callback")
         => ro'.attempts = ro.attempts + 1

C6_OnlyFatalPathsRaise ==
    (pc = "idle" /\ lastOp.op = "run" /\ ro.adapter # "None")
      => \/ lastOp.res = "returned"
         \/ lastOp = Done("run", "ValueError", "run")
         \/ lastOp = Done("run", "ExcessTokenError", "llm_callback")

\* C7: a Run returned by run() is COMPLETED or FAILED, whatever
\* max_attempts was.
C7_ReturnedRunIsSettled ==
    RunReturned => ro.status \in {"COMPLETED", "FAILED"}

\* the status changes a Run may make
StatusSteps ==
    {<<"UNSUBMITTED", "PENDING">>, <<"PENDING", "SUBMITTED">>,
     <<"SUBMITTED", "COMPLETED">>, <<"SUBMITTED", "ERROR">>,
     <<"SUBMITTED", "FAILED">>, <<"ERROR", "SUBMITTED">>,
     <<"ERROR", "FAILED">>}

C8_StatusInStep ==
    /\ ro'.id # ro.id => ro'.status = "UNSUBMITTED"
    /\ (ro'.id = ro.id /\ ro'.status # ro.status)
         => <<ro.status, ro'.status>> \in StatusSteps
    /\ (pc # "llm_callback" /\ pc' = "llm_callback")
         => ro'.status = "SUBMITTED" /\ ro.status \in {"PENDING", "ERROR"}
    /\ (ro'.id = ro.id /\ ro'.status = "SUBMITTED" /\ ro.status # "SUBMITTED")
         => pc' = "llm_callback" /\ calls'.llm_callback = calls.llm_callback + 1

\* C8: the status of a Run starts UNSUBMITTED and changes only along
\* UNSUBMITTED -> PENDING -> SUBMITTED -> {COMPLETED, ERROR, FAILED} and
\* ERROR -> {SUBMITTED, FAILED}; it becomes SUBMITTED in the very step that
\* invokes llm_callback and is SUBMITTED while the callback runs; COMPLETED
\* and FAILED are never left; QUEUED is never reached.
C8_StatusLifecycle ==
    [](ro.status # "QUEUED" /\ (pc = "llm_callback" => ro.status = "SUBMITTED"))
    /\ [][C8_StatusInStep]_vars

\* a retry: SUBMITTED again after an ERROR
C8_Witness ==
    /\ pc = "llm_callback"
    /\ ro.status = "SUBMITTED"
    /\ Len(ro.error_list) = 1
    /\ sleeps = 1

\* C9: while run() executes the exchanges are those it found; when it ends,
\* either the exchange sequence is the one it found with exactly one new
\* Exchange appended and the Run is COMPLETED, or the sequence and the
\* Exchange objects are unchanged and the Run is not COMPLETED.
C9_OneAppendOnlyOnSuccess ==
    /\ pc # "idle" => chat_exchanges = entry.chat_exchanges /\ exchs = entry.exchs
    /\ RunEnded =>
         \/ /\ ro.status = "COMPLETED"
            /\ Len(exchs) = Len(entry.exchs) + 1
            /\ SubSeq(exchs, 1, Len(entry.exchs)) = entry.exchs
            /\ chat_exchanges = Append(entry.chat_exchanges, Len(exchs))
         \/ /\ ro.status # "COMPLETED"
            /\ exchs = entry.exchs
            /\ chat_exchanges = entry.chat_exchanges

\* a run() that ended by raising while the response was being adapted,
\* after a failed attempt, and left the exchanges alone
C9_Witness ==
    /\ RunEnded
    /\ lastOp.site \in {"to_chatmessage", "ChatExchange"}
    /\ Len(ro.error_list) = 1
    /\ Len(chat_exchanges) = 1
    /\ chat_exchanges = entry.chat_exchanges

\* C10: the prompt of every Exchange is a user message and its response an
\* assistant message.
C10_ExchangePairing ==
    \A e \in ExchIds :
        /\ msgs[exchs[e].prompt].role = "user"
        /\ msgs[exchs[e].response].role = "assistant"

\* C11: every message's role is one of user, assistant, system in every
\* reachable state; a construction, role assignment or update that ends
\* with the validation error leaves every message's role and content as
\* they were; and a step changes messages only by adding one message or
\* by a successful assignment / update of one message (an update never
\* leaves one field changed and reports a failure).
C11_RoleInState == \A i \in MsgIds : msgs[i].role \in VALID_ROLES

C11_FailureInStep ==
    /\ lastOp'.res = "ValueError" => msgs' = msgs
    /\ msgs' # msgs =>
          /\ lastOp'.res = "ok"
          /\ \/ /\ Len(msgs') = Len(msgs) + 1
                /\ SubSeq(msgs', 1, Len(msgs)) = msgs
             \/ /\ Len(msgs') = Len(msgs)
                /\ \E i \in MsgIds : \A j \in MsgIds \ {i} : msgs'[j] = msgs[j]

C11_RoleValidity == []C11_RoleInState /\ [][C11_FailureInStep]_vars

\* a rejected operation on messages, after an update changed both fields
C11_Witness ==
    /\ lastOp = Done("ChatMessage", "ValueError", "ChatMessage")
    /\ \E i \in MsgIds :
          ~msgs[i].sys /\ msgs[i].role = "assistant" /\ msgs[i].content = "c2"

\* C12: a SystemChatMessage reports the role "system" in every reachable
\* state and stays a SystemChatMessage; an operation that ends with the
\* validation error changes no message; from_chatmessage fails without
\* change when the source's role is not "system" and otherwise creates a
\* SystemChatMessage with the source's content.
C12_SystemInState == \A i \in MsgIds : msgs[i].sys => msgs[i].role = "system"

C12_SystemInStep ==
    /\ \A i \in MsgIds : msgs[i].sys => i \in 1 .. Len(msgs') /\ msgs'[i].sys
    /\ lastOp'.res = "ValueError" => msgs' = msgs
    /\ lastOp'.op = "from_chatmessage" =>
          \E i \in MsgIds :
             /\ lastOp'.site = ToString(i)
             /\ IF msgs[i].role = "system"
                THEN /\ lastOp'.res = "ok"
                     /\ Len(msgs') = Len(msgs) + 1
                     /\ SubSeq(msgs', 1, Len(msgs)) = msgs
                     /\ msgs'[Len(msgs')].sys
                     /\ msgs'[Len(msgs')].content = msgs[i].content
                ELSE lastOp'.res = "ValueError" /\ msgs' = msgs

C12_SystemRolePinned == []C12_SystemInState /\ [][C12_SystemInStep]_vars

\* a plain message with role "system" has been converted, and a later
\* assignment of another role has been rejected
C12_Witness ==
    /\ lastOp = Done("ChatMessage", "ValueError", "ChatMessage")
    /\ \E i, j \in MsgIds :
          /\ ~msgs[i].sys /\ msgs[j].sys /\ i < j
          /\ msgs[i].role = "system"
          /\ msgs[j].content = msgs[i].content /\ msgs[j].content = "c2"

\* C13: deserializing the text serialize() produced succeeds and leaves a
\* value equal to the original: for a ChatMessages collection the same
\* role and content per message in the same order, for a Conversation the
\* same system message and the same exchanges.
C13_RoundTripInStep ==
    (lastOp'.op \in {"deserialize", "Conversation.deserialize"}
        /\ lastOp'.site = "serialize") =>
       /\ lastOp'.res = "ok"
       /\ Len(messages') = Len(messages)
       /\ \A k \in 1 .. Len(messages) :
             to_dict(msgs'[messages'[k]]) = to_dict(msgs[messages[k]])
       /\ to_dict(msgs'[system_message']) = to_dict(msgs[system_message])
       /\ Len(chat_exchanges') = Len(chat_exchanges)

C13_RoundTrip == [][C13_RoundTripInStep]_vars

\* C14: remove(m) fails and leaves the collection unchanged when m itself
\* is not a member, whatever the other members' role and content; when m
\* is a member the collection loses exactly one occurrence of m and the
\* rest keeps its order; get(id) changes nothing, returns the member with
\* that id and fails when no member has it.
C14_Members == {messages[k] : k \in 1 .. Len(messages)}

C14_CollectionInStep ==
    /\ lastOp'.op = "remove" =>
          \E i \in MsgIds :
             /\ lastOp'.site = ToString(i)
             /\ msgs' = msgs
             /\ IF i \in C14_Members
                THEN /\ lastOp'.res = "ok"
                     /\ \E k \in 1 .. Len(messages) :
                           /\ messages[k] = i
                           /\ messages' = SubSeq(messages, 1, k - 1)
                                          \o SubSeq(messages, k + 1, Len(messages))
                ELSE /\ lastOp'.res = "ValueError"
                     /\ messages' = messages
    /\ lastOp'.op = "get" =>
          /\ messages' = messages /\ msgs' = msgs
          /\ \E id \in 1 .. (Len(msgs) + 1) :
                /\ lastOp'.site = ToString(id)
                /\ lastOp'.res = (IF id \in C14_Members THEN "ok" ELSE "ValueError")

C15_RecordOf(i) == [role |-> msgs[i].role, content |-> msgs[i].content]

C15_PayloadInState ==
    LET payload == from_conversation
        n == Len(chat_exchanges)
    IN  /\ Len(payload) = 1 + 2 * n + (IF next_prompt # None THEN 1 ELSE 0)
        /\ payload[1] = C15_RecordOf(system_message)
        /\ \A k \in 1 .. n :
              /\ payload[2 * k] = C15_RecordOf(exchs[chat_exchanges[k]].prompt)
              /\ payload[2 * k + 1] = C15_RecordOf(exchs[chat_exchanges[k]].response)
        /\ next_prompt # None => payload[2 * n + 2] = C15_RecordOf(next_prompt)

C15_PayloadInStep ==
    (pc = "from_conversation" /\ pc' = "while") =>
       /\ UNCHANGED <<msgs, exchs, system_message, chat_exchanges, next_prompt>>
       /\ ro'.submission_list = from_conversation
       /\ Len(ro'.submission_list) = 2 * Len(chat_exchanges) + 2

C15_FromConversation == []C15_PayloadInState /\ [][C15_PayloadInStep]_vars

\* run() has stored the payload of a conversation with two exchanges
C15_Witness ==
    /\ pc = "while"
    /\ Len(chat_exchanges) = 2
    /\ Len(ro.submission_list) = 6
    /\ ro.submission_list[6] = C15_RecordOf(next_prompt)

C18_ErrorsInState ==
    /\ Len(ro.error_list) <= calls.llm_callback
    /\ pc \in {"while", "except", "sleep"} =>
          Len(ro.error_list) = calls.llm_callback
    /\ pc = "llm_callback" => Len(ro.error_list) = calls.llm_callback - 1

C18_ErrorsInStep ==
    /\ ro'.id # ro.id => ro'.error_list = <<>>
    /\ (ro'.id = ro.id /\ ro'.error_list # ro.error_list) =>
          /\ pc = "llm_callback"
          /\ ro'.status \in {"ERROR", "FAILED"}
          /\ \E e \in CallbackErrors :
                /\ ro'.error_list = ro.error_list \o <<e>>
                /\ e = "ExcessTokenError"
                      <=> lastOp' = Done("run", "ExcessTokenError", "llm_callback")
                /\ e = "ExcessTokenError" <=> pc' = "idle"
    /\ (pc = "llm_callback" /\ ro'.error_list = ro.error_list) =>
          /\ ro'.status \notin {"ERROR", "FAILED"}
          /\ pc' = "idle"
          /\ lastOp'.res # "ExcessTokenError"

C18_ErrorListIsLog == []C18_ErrorsInState /\ [][C18_ErrorsInStep]_vars

\* two recoverable failures, then the fatal one
C18_Witness ==
    /\ RunEnded
    /\ ro.error_list = <<"ConnectionError", "ConnectionError", "ExcessTokenError">>

\* what a copy of the conversation run() was called on holds
C19_EntryCopy ==
    [set |-> TRUE,
     system_message |-> entry.msgs[entry.system_message],
     chat_exchanges |->
        [k \in 1 .. Len(entry.chat_exchanges) |->
            [prompt |-> entry.msgs[entry.exchs[entry.chat_exchanges[k]].prompt],
             response |-> entry.msgs[entry.exchs[entry.chat_exchanges[k]].response]]],
     next_prompt |-> IF entry.next_prompt = None THEN [set |-> FALSE]
                     ELSE entry.msgs[entry.next_prompt]]

\* once set, the snapshot is the copy of the conversation as run() found
\* it, whatever is done to the Conversation afterwards; with a COMPLETED
\* Run it has one exchange fewer than the Conversation had at the return
C19_SnapshotIsEntryCopy ==
    /\ ro.convo_snapshot.set => ro.convo_snapshot = C19_EntryCopy
    /\ (RunReturned /\ ro.status = "COMPLETED") =>
          /\ ro.convo_snapshot.set
          /\ Len(ro.convo_snapshot.chat_exchanges) = Len(chat_exchanges) - 1

C19_SnapshotKept ==
    (ro'.id = ro.id /\ ro.convo_snapshot.set) =>
       ro'.convo_snapshot = ro.convo_snapshot

\* C19: the snapshot of a COMPLETED Run is the independent copy
\* of the conversation as it was before the Exchange was appended, later
\* mutations of the Conversation do not change it, and whenever run() has
\* ended without a COMPLETED Run the snapshot is unset.
C19_SnapshotOnlyOnSuccess ==
    /\ []C19_SnapshotIsEntryCopy
    /\ []((RunEnded /\ ro.status # "COMPLETED") => ~ro.convo_snapshot.set)
    /\ [][C19_SnapshotKept]_vars

\* C20: llm_callback is invoked only from the top of the loop, when no
\* invocation is in flight; sleep is entered only after a non-fatal
\* failure that leaves attempts to spare, and the next invocation follows
\* it; so there is exactly one wait between two consecutive invocations of
\* a Run and none after the last one, whether that returned, raised the
\* token error, or was the failure that used up max_attempts.
C20_BackoffInState ==
    /\ pc = "from_conversation" => sleeps = 0 /\ calls.llm_callback = 0
    /\ pc \in {"llm_callback", "except"} => sleeps = calls.llm_callback - 1
    /\ pc \in {"while", "sleep"} => sleeps = calls.llm_callback
    /\ pc = "idle" =>
          sleeps = (IF calls.llm_callback = 0 THEN 0 ELSE calls.llm_callback - 1)
    /\ pc = "sleep" =>
          /\ ro.status = "ERROR"
          /\ ro.attempts < ro.max_attempts
          /\ ro.error_list[Len(ro.error_list)] # "ExcessTokenError"

C20_BackoffInStep ==
    /\ ro'.id # ro.id => sleeps' = 0 /\ calls'.llm_callback = 0
    /\ (ro'.id = ro.id /\ calls'.llm_callback # calls.llm_callback) =>
          /\ pc = "while" /\ pc' = "llm_callback"
          /\ calls'.llm_callback = calls.llm_callback + 1
          /\ sleeps' = sleeps
    /\ (ro'.id = ro.id /\ sleeps' # sleeps) =>
          /\ pc = "except" /\ pc' = "sleep"
          /\ sleeps' = sleeps + 1
          /\ calls' = calls
    /\ pc = "sleep" => pc' = "while"
    /\ (pc = "llm_callback" /\ pc' # "except") => pc' = "idle"

C20_AttemptsSeparatedByBackoff == []C20_BackoffInState /\ [][C20_BackoffInStep]_vars

\* three failed attempts out of three: two waits, none after the last
C20_Witness ==
    /\ RunReturned
    /\ ro.status = "FAILED"
    /\ calls.llm_callback = 3
    /\ sleeps = 2

\* C21: no step of run() changes next_prompt or the message it names,
\* however the run ends; when run() has returned a COMPLETED Run the
\* Conversation still holds the prompt it was called with and the last
\* Exchange's prompt is that same Message object; so a run() called right
\* after a run() that was accepted is never refused for a missing prompt,
\* submits a payload ending with the same prompt, and its Exchange shares
\* the prompt Message.
C21_PromptInState ==
    /\ (pc # "idle" \/ RunEnded) =>
          /\ next_prompt = entry.next_prompt
          /\ next_prompt # None
          /\ msgs[next_prompt] = entry.msgs[next_prompt]
    /\ (RunReturned /\ ro.status = "COMPLETED") =>
          exchs[chat_exchanges[Len(chat_exchanges)]].prompt = next_prompt
    /\ (pc = "while" /\ ro.status = "PENDING") =>
          ro.submission_list[Len(ro.submission_list)] = to_dict(msgs[next_prompt])

C21_PromptInStep ==
    /\ (pc # "idle" \/ lastOp'.op = "run") => next_prompt' = next_prompt
    /\ (RunEnded /\ lastOp'.op = "run") =>
          lastOp' # Done("run", "ValueError", "run")

C21_RunKeepsNextPrompt == []C21_PromptInState /\ [][C21_PromptInStep]_vars

\* two runs in a row have succeeded on a conversation that started empty:
\* two different Exchanges share the prompt Message, which is still pending
C21_Witness ==
    /\ RunReturned /\ ro.status = "COMPLETED"
    /\ ro.id = 2
    /\ Len(chat_exchanges) = 2
    /\ chat_exchanges[1] # chat_exchanges[2]
    /\ exchs[chat_exchanges[1]].prompt = next_prompt
    /\ exchs[chat_exchanges[2]].prompt = next_prompt
    /\ exchs[chat_exchanges[1]].response # exchs[chat_exchanges[2]].response

\* C22: in every reachable state the Run's error_list has as many entries
\* as attempts or one fewer; with status FAILED it has exactly as many
\* (every attempt made has failed); with status COMPLETED it has exactly
\* one fewer and response is set (only the last attempt succeeded).
C22_ErrorsAndAttempts ==
    /\ ro.attempts - 1 <= Len(ro.error_list)
    /\ Len(ro.error_list) <= ro.attempts
    /\ ro.status = "FAILED" => Len(ro.error_list) = ro.attempts
    /\ ro.status = "COMPLETED" =>
          /\ Len(ro.error_list) = ro.attempts - 1
          /\ ro.response # None
          /\ ro.response \in MsgIds

\* the second of two permitted attempts has succeeded
C22_Witness ==
    /\ ro.status = "COMPLETED"
    /\ ro.max_attempts = 2
    /\ ro.attempts = 2
    /\ Len(ro.error_list) = 1
    /\ ro.response \in MsgIds

=============================================================================
